---- MODULE Spec2Model ----
(***************************************************************************)
(* Client-side concurrency control of the collaborative spreadsheet:       *)
(* OperationQueue, CellLockManager, VersionManager, BatchUpdateManager     *)
(* (src/src/utils/raceConditionHandler.ts) and the facade hook             *)
(* useRaceConditionHandler (src/src/hooks/useUserPresence.ts).             *)
(*                                                                         *)
(* The JavaScript event loop is single threaded: every action below is one *)
(* run-to-completion piece of code (a call from the UI, a timer callback,  *)
(* or the continuation of an await).                                       *)
(***************************************************************************)
EXTENDS Integers, Sequences, FiniteSets, TLC

VARIABLES
    \* ---- OperationQueue ----
    queue,        \* OperationQueue.queue: the wrappers not yet started (operation ids)
    processing,   \* OperationQueue.processing
    awaiting,     \* operations a process() activation is suspended on (await operation())
    opState,      \* per operation: "idle" | "queued" | "running" | "resolved" | "rejected" | "dropped"
    wrapped,      \* per operation: state of the promise of its queue wrapper
    handle,       \* per operation: state of the promise returned by enqueue()
    started,      \* history: the operations in the order they were started
    enqueued,     \* history: number of enqueue() calls so far (operations are numbered by it)
    waitsFor,     \* per operation: the operation whose handle its body awaits (0: none)
    \* ---- clock ----
    now,          \* Date.now()
    \* ---- CellLockManager ----
    lockedCells,  \* CellLockManager.lockedCells: Map cell -> [userId, timestamp]
    acquired,     \* history: <<cell, user>> -> time of the user's last successful lockCell not followed by its unlockCell
    lastCall,     \* history: the last call made and what it returned
    \* ---- VersionManager ----
    version,         \* VersionManager.version
    pendingUpdates,  \* VersionManager.pendingUpdates: Map cell -> version
    \* ---- BatchUpdateManager ----
    batch,           \* BatchUpdateManager.batch: Map cell -> CellValue, as the sequence of its entries
    batchTimeout,    \* BatchUpdateManager.batchTimeout: the armed timer (its deadline, the userId its callback closes over)
    \* ---- timers and BatchUpdateManager history ----
    timers,          \* the timers set by setTimeout and neither fired nor cleared
    added,           \* history: the addUpdate calls, in order (a value carries the number of its call as version)
    flushed,         \* history: the invocations of a flush callback, in order, with the snapshot handed over
    \* ---- facade ----
    flights,         \* the flush callbacks in progress, each awaiting the persistence sink
    edits,           \* history: the edits accepted by updateCell, by version
    mounted,         \* the component that called the hook is mounted
    \* ---- resolveCellConflict ----
    localValue,      \* argument localValue
    remoteValue,     \* argument remoteValue
    resolution,      \* the ConflictResolution returned, or NoResolution before the call
    \* ---- mergeCellUpdates ----
    updates,         \* argument updates
    merged,          \* the outcome of the call: a value returned or an error thrown; NoMerge before the call
    \* ---- two writers of one cell ----
    written,         \* per writer: the CellValue it wrote
    shown,           \* per writer: the CellValue its site holds for the cell
    applied,         \* the sites that have resolved their value against the other writer's
    \* ---- VersionManager, history ----
    returned,        \* history: the values returned by getNextVersion, in order, with their cells
    \* ---- one CellLockManager per client ----
    clientLocks,     \* per user: lockedCells of the CellLockManager of that user's client
    \* ---- the grid in the store, under structural operations ----
    currentData,     \* per operation: how far its body is and what its get() of the grid returned
    lost             \* the edits whose value a whole-grid set() removed from the store

qvars == <<queue, processing, awaiting, opState, wrapped, handle, started, enqueued, waitsFor>>
lvars == <<lockedCells, acquired>>
fvars == <<version, pendingUpdates, batch, batchTimeout, flights, edits, mounted>>
bvars == <<timers, added, flushed>>
mvars == <<updates, merged>>
svars == <<written, shown, applied>>
gvars == <<currentData, lost>>
rvars == <<localValue, remoteValue, resolution, mvars, svars, returned, clientLocks, gvars>>
vars == <<queue, processing, awaiting, opState, wrapped, handle, started, enqueued, waitsFor,
          now, lockedCells, acquired, lastCall,
          version, pendingUpdates, batch, batchTimeout, timers, added, flushed,
          flights, edits, mounted, localValue, remoteValue, resolution,
          updates, merged, written, shown, applied, returned, clientLocks,
          currentData, lost>>

(***************************************************************************)
(* Bounds of the model                                                     *)
(***************************************************************************)
MaxOps == 4
Ops == 1..MaxOps
\* the clock of the model reads k * LOCK_TTL + j for j <= MaxFine, up to MaxNow
\* (and the deadline of the armed timer)
MaxNow == 5001
MaxFine == 1
\* updateCell is called at most MaxEdits times
MaxEdits == 2
\* addUpdate is called at most MaxAdds times on a BatchUpdateManager used alone
MaxAdds == 2
Cells == {"0:0", "0:1"}
Users == {"userA", "userB"}
Values == {"x"}

(***************************************************************************)
(* OperationQueue                                                          *)
(***************************************************************************)

\* process() line 100 with the check of the flag left out
ProcessReturnsEarly_NoFlag(p, q) == Len(q) = 0

\* process(): if (this.processing || this.queue.length === 0) return;
ProcessReturnsEarly(p, q) == p \/ Len(q) = 0

\* this.queue.pop() in place of this.queue.shift()
Shift_Pop(q) == [op |-> q[Len(q)], rest |-> SubSeq(q, 1, Len(q) - 1)]

\* const operation = this.queue.shift();
Shift(q) == [op |-> Head(q), rest |-> Tail(q)]

\* the wrapper with its try/catch left out: the rejection escapes the wrapper
WrapperSettle_NoCatch(outcome) ==
    IF outcome = "resolved"
    THEN [handle |-> "resolved", wrapped |-> "fulfilled"]
    ELSE [handle |-> "pending", wrapped |-> "rejected"]

\* the wrapper pushed by enqueue(): try { resolve(await operation()) } catch (e) { reject(e) }
WrapperSettle(outcome) ==
    IF outcome = "resolved"
    THEN [handle |-> "resolved", wrapped |-> "fulfilled"]
    ELSE [handle |-> "rejected", wrapped |-> "fulfilled"]

QueueInit ==
    /\ queue = <<>>
    /\ processing = FALSE
    /\ awaiting = {}
    /\ opState = [o \in Ops |-> "idle"]
    /\ wrapped = [o \in Ops |-> "none"]
    /\ handle = [o \in Ops |-> "none"]
    /\ started = <<>>
    /\ enqueued = 0
    /\ waitsFor = [o \in Ops |-> 0]

\* enqueue(operation): push the wrapper, then call process(), which (when it does
\* not return early) sets the flag, shifts the head and calls it: the operation
\* runs up to its first await inside this same call.
Enqueue ==
    /\ enqueued < MaxOps
    /\ LET o == enqueued + 1
           q == Append(queue, o)
       IN /\ enqueued' = o
          /\ handle' = [handle EXCEPT ![o] = "pending"]
          /\ IF ProcessReturnsEarly(processing, q)
             THEN /\ queue' = q
                  /\ opState' = [opState EXCEPT ![o] = "queued"]
                  /\ UNCHANGED <<processing, awaiting, wrapped, started>>
             ELSE LET s == Shift(q)
                  IN /\ processing' = TRUE
                     /\ queue' = s.rest
                     /\ opState' = [opState EXCEPT ![o] = "queued", ![s.op] = "running"]
                     /\ wrapped' = [wrapped EXCEPT ![s.op] = "pending"]
                     /\ awaiting' = awaiting \cup {s.op}
                     /\ started' = Append(started, s.op)
    /\ UNCHANGED <<waitsFor, now, lockedCells, acquired, lastCall, fvars, bvars, rvars>>

\* the body of operation o is suspended on `await` of a handle that is pending
Blocked(o) == IF waitsFor[o] = 0 THEN FALSE ELSE handle[waitsFor[o]] = "pending"

\* The promise of a running operation settles; the continuation of its wrapper
\* settles the handle of that operation and the wrapper returns.
OperationSettles(o, outcome) ==
    /\ opState[o] = "running"
    /\ ~Blocked(o)
    /\ opState' = [opState EXCEPT ![o] = outcome]
    /\ handle' = [handle EXCEPT ![o] = WrapperSettle(outcome).handle]
    /\ wrapped' = [wrapped EXCEPT ![o] = WrapperSettle(outcome).wrapped]
    /\ UNCHANGED <<queue, processing, awaiting, started, enqueued>>
    /\ UNCHANGED <<waitsFor, now, lockedCells, acquired, lastCall, fvars, bvars, rvars>>

\* process() resumes after `await operation()`: the while loop shifts and calls
\* the next wrapper, or leaves the loop and resets the flag.  A rejected wrapper
\* promise makes the await throw: process() ends without resetting the flag.
ProcessResume(o) ==
    /\ o \in awaiting
    /\ wrapped[o] \in {"fulfilled", "rejected"}
    /\ IF wrapped[o] = "rejected"
       THEN /\ awaiting' = awaiting \ {o}
            /\ UNCHANGED <<queue, processing, opState, wrapped, started>>
       ELSE IF Len(queue) > 0
       THEN LET s == Shift(queue)
            IN /\ queue' = s.rest
               /\ opState' = [opState EXCEPT ![s.op] = "running"]
               /\ wrapped' = [wrapped EXCEPT ![s.op] = "pending"]
               /\ awaiting' = (awaiting \ {o}) \cup {s.op}
               /\ started' = Append(started, s.op)
               /\ UNCHANGED processing
       ELSE /\ processing' = FALSE
            /\ awaiting' = awaiting \ {o}
            /\ UNCHANGED <<queue, opState, wrapped, started>>
    /\ UNCHANGED <<handle, enqueued>>
    /\ UNCHANGED <<waitsFor, now, lockedCells, acquired, lastCall, fvars, bvars, rvars>>

\* a clear() that leaves the array as it is
ClearedQueue_Keep(q) == q

\* clear(): this.queue = []
ClearedQueue(q) == <<>>

\* clear()
QueueClear ==
    /\ queue' = ClearedQueue(queue)
    /\ opState' = [o \in Ops |-> IF opState[o] = "queued" THEN "dropped" ELSE opState[o]]
    /\ UNCHANGED <<processing, awaiting, wrapped, handle, started, enqueued>>
    /\ UNCHANGED <<waitsFor, now, lockedCells, acquired, lastCall, fvars, bvars, rvars>>

(***************************************************************************)
(* Map (insertion order kept where the code iterates)                      *)
(***************************************************************************)

\* Map.set on a Map that is never iterated
MapSet(m, k, v) == [x \in (DOMAIN m) \cup {k} |-> IF x = k THEN v ELSE m[x]]

\* Map.delete
MapDelete(m, k) == [x \in (DOMAIN m) \ {k} |-> m[x]]

\* Map.has on a Map kept as the sequence of its entries
HasEntry(s, k) == \E i \in 1..Len(s) : s[i].id = k

\* Map.set on a Map kept as the sequence of its entries: an existing key keeps
\* its position, a new key goes last
SetEntry(s, k, v) ==
    IF HasEntry(s, k)
    THEN [i \in 1..Len(s) |-> IF s[i].id = k THEN [id |-> k, val |-> v] ELSE s[i]]
    ELSE Append(s, [id |-> k, val |-> v])

(***************************************************************************)
(* Clock                                                                   *)
(***************************************************************************)

\* stale locks: 5 seconds
LOCK_TTL == 5000

\* BatchUpdateManager.BATCH_DELAY
BATCH_DELAY == 100

Times == {t \in 0..MaxNow : t % LOCK_TTL <= MaxFine}

NoTimer == [armed |-> FALSE, deadline |-> 0, userId |-> "none"]

\* Time passes.  A timer set by setTimeout fires when its delay has elapsed:
\* the clock does not pass the deadline of a timer that is set.
Tick ==
    /\ \E t \in Times \cup {tm.deadline : tm \in timers} :
          /\ t > now
          /\ \A tm \in timers : t <= tm.deadline
          /\ now' = t
    /\ UNCHANGED <<qvars, lvars, lastCall, fvars, bvars, rvars>>

(***************************************************************************)
(* CellLockManager                                                         *)
(***************************************************************************)

\* lockCell removing the existing entry whatever its age
AfterStaleRemoval_Always(locks, c, t) ==
    IF c \in DOMAIN locks THEN MapDelete(locks, c) ELSE locks

\* the staleness test with >= in place of >
IsStale_AtTTL(lock, t) == t - lock.timestamp >= LOCK_TTL

\* now - existing.timestamp > 5000
IsStale(lock, t) == t - lock.timestamp > LOCK_TTL

\* lockCell lines 187-193: the map after a stale entry of the cell was removed
AfterStaleRemoval(locks, c, t) ==
    IF c \in DOMAIN locks /\ IsStale(locks[c], t) THEN MapDelete(locks, c) ELSE locks

\* lockCell without the test of the holder
LockCellRefused_AnyHolder(locks, c, u, t) == FALSE

\* lockCell lines 196-201: locked by another user
LockCellRefused(locks, c, u, t) ==
    LET m == AfterStaleRemoval(locks, c, t)
    IN c \in DOMAIN m /\ m[c].userId # u

\* lockCell: the value returned
LockCellReturn(locks, c, u, t) == ~LockCellRefused(locks, c, u, t)

\* lockCell that leaves the entry of a holder who locks again as it is
LockCellState_KeepStamp(locks, c, u, t) ==
    LET m == AfterStaleRemoval(locks, c, t)
    IN IF c \in DOMAIN m THEN m ELSE MapSet(m, c, [userId |-> u, timestamp |-> t])

\* lockCell: the map afterwards
LockCellState(locks, c, u, t) ==
    IF LockCellRefused(locks, c, u, t)
    THEN AfterStaleRemoval(locks, c, t)
    ELSE MapSet(AfterStaleRemoval(locks, c, t), c, [userId |-> u, timestamp |-> t])

\* unlockCell that does not compare the holder
UnlockCellState_AnyHolder(locks, c, u) ==
    IF c \in DOMAIN locks THEN MapDelete(locks, c) ELSE locks

\* unlockCell: the map afterwards
UnlockCellState(locks, c, u) ==
    IF c \in DOMAIN locks /\ locks[c].userId = u THEN MapDelete(locks, c) ELSE locks

\* clearStaleLocks: the map afterwards
ClearStaleLocksState(locks, t) ==
    [c \in {x \in DOMAIN locks : ~IsStale(locks[x], t)} |-> locks[c]]

\* the entry of one cell, as a map of at most one entry
EntryOf(locks, c) == [x \in (DOMAIN locks) \cap {c} |-> locks[x]]

NoCall == [op |-> "none", cell |-> "none", user |-> "none", ret |-> FALSE,
           at |-> 0, before |-> <<>>]

LockInit ==
    /\ lockedCells = <<>>
    /\ acquired = <<>>
    /\ lastCall = NoCall

LockCell(c, u) ==
    /\ lockedCells' = LockCellState(lockedCells, c, u, now)
    /\ acquired' = IF LockCellReturn(lockedCells, c, u, now)
                   THEN MapSet(acquired, <<c, u>>, now)
                   ELSE acquired
    /\ lastCall' = [op |-> "lockCell", cell |-> c, user |-> u,
                    ret |-> LockCellReturn(lockedCells, c, u, now),
                    at |-> now, before |-> EntryOf(lockedCells, c)]
    /\ UNCHANGED <<qvars, now, fvars, bvars, rvars>>

UnlockCell(c, u) ==
    /\ lockedCells' = UnlockCellState(lockedCells, c, u)
    /\ acquired' = MapDelete(acquired, <<c, u>>)
    /\ lastCall' = [op |-> "unlockCell", cell |-> c, user |-> u, ret |-> TRUE,
                    at |-> now, before |-> EntryOf(lockedCells, c)]
    /\ UNCHANGED <<qvars, now, fvars, bvars, rvars>>

\* clearStaleLocks().  The facade calls it from a 2000 ms interval whose phase
\* depends on when the hook was mounted: the sweep may come at any time.
ClearStaleLocks ==
    /\ lockedCells' = ClearStaleLocksState(lockedCells, now)
    /\ lastCall' = [op |-> "clearStaleLocks", cell |-> "none", user |-> "none",
                    ret |-> TRUE, at |-> now, before |-> <<>>]
    /\ UNCHANGED <<qvars, now, acquired, fvars, bvars, rvars>>

(***************************************************************************)
(* VersionManager                                                          *)
(***************************************************************************)

\* getNextVersion is called at most MaxVersions times on a VersionManager used alone
MaxVersions == 4

\* a counter that starts again
NextVersion_Wrap(v) == IF v >= 2 THEN 1 ELSE v + 1

\* getNextVersion: this.version++
NextVersion(v) == v + 1

\* confirmUpdate that leaves the entry
ConfirmUpdateState_Keep(pending, c) == pending

\* confirmUpdate / rollbackUpdate: this.pendingUpdates.delete(cellId)
ConfirmUpdateState(pending, c) == MapDelete(pending, c)

\* a rollback that gives the number back
RollbackVersion_GiveBack(v) == IF v > 0 THEN v - 1 ELSE v

\* rollbackUpdate: "Version stays incremented to prevent conflicts"
RollbackVersion(v) == v

\* an updateCell that takes a version before it tries the lock
VersionOnRefusal_Taken(v) == NextVersion(v)

\* updateCell returns false before getNextVersion is reached
VersionOnRefusal(v) == v

\* hasPendingUpdates
HasPendingUpdates == DOMAIN pendingUpdates # {}

\* history: getNextVersion(c) returned v
Returned(c, v) == [cell |-> c, v |-> v, rolledBack |-> FALSE]

\* getNextVersion(cellId)
GetNextVersion(c) ==
    /\ Len(returned) < MaxVersions
    /\ version' = NextVersion(version)
    /\ pendingUpdates' = MapSet(pendingUpdates, c, NextVersion(version))
    /\ returned' = Append(returned, Returned(c, NextVersion(version)))
    /\ lastCall' = [op |-> "getNextVersion", cell |-> c, user |-> "none",
                    ret |-> NextVersion(version), at |-> now, before |-> version]
    /\ UNCHANGED <<qvars, now, lvars, batch, batchTimeout, flights, edits, mounted, bvars,
                   localValue, remoteValue, resolution, mvars, svars, clientLocks, gvars>>

\* confirmUpdate(cellId)
ConfirmUpdate(c) ==
    /\ pendingUpdates' = ConfirmUpdateState(pendingUpdates, c)
    /\ lastCall' = [op |-> "confirmUpdate", cell |-> c, user |-> "none",
                    ret |-> TRUE, at |-> now, before |-> version]
    /\ UNCHANGED <<qvars, now, lvars, version, batch, batchTimeout, flights, edits, mounted,
                   bvars, rvars>>

\* rollbackUpdate(cellId)
RollbackUpdate(c) ==
    /\ pendingUpdates' = ConfirmUpdateState(pendingUpdates, c)
    /\ version' = RollbackVersion(version)
    /\ returned' = [i \in 1..Len(returned) |->
                       IF c \in DOMAIN pendingUpdates /\ returned[i].v = pendingUpdates[c]
                       THEN [returned[i] EXCEPT !.rolledBack = TRUE]
                       ELSE returned[i]]
    /\ lastCall' = [op |-> "rollbackUpdate", cell |-> c, user |-> "none",
                    ret |-> TRUE, at |-> now, before |-> version]
    /\ UNCHANGED <<qvars, now, lvars, batch, batchTimeout, flights, edits, mounted, bvars,
                   localValue, remoteValue, resolution, mvars, svars, clientLocks, gvars>>

(***************************************************************************)
(* BatchUpdateManager                                                      *)
(***************************************************************************)

\* the timer a handle stands for
TimerOf(bt) == [deadline |-> bt.deadline, userId |-> bt.userId]

\* addUpdate without its clearTimeout
ClearTimeout_None(ts, bt) == ts

\* if (this.batchTimeout) clearTimeout(this.batchTimeout): the timers left
ClearTimeout(ts, bt) == IF bt.armed THEN ts \ {TimerOf(bt)} ELSE ts

\* setTimeout(() => this.flush(onFlush), this.BATCH_DELAY), onFlush closing
\* over userId u: the handle kept in this.batchTimeout
NewTimeout(t, u) == [armed |-> TRUE, deadline |-> t + BATCH_DELAY, userId |-> u]

\* this.batch.set(cellId, value) that keeps the value already there
AddToBatch_KeepFirst(b, c, v) ==
    IF HasEntry(b, c) THEN b ELSE Append(b, [id |-> c, val |-> v])

\* addUpdate: this.batch.set(cellId, value)
AddToBatch(b, c, v) == SetEntry(b, c, v)

\* flush that calls back with an empty map too
FlushSkips_Never(b) == FALSE

\* flush: if (this.batch.size === 0) return;
FlushSkips(b) == Len(b) = 0

\* flush: const updates = new Map(this.batch)
FlushSnapshot(b) == b

\* flush without this.batch.clear()
FlushRemainder_Keep(b) == b

\* flush: this.batch.clear()
FlushRemainder(b) == <<>>

\* a flush that puts the entries of a rejected snapshot back, unless the cell
\* has a newer entry
AfterReject_Requeue(b, snapshot) ==
    b \o SelectSeq(snapshot, LAMBDA e : ~HasEntry(b, e.id))

\* flush after `await onFlush(updates)` threw: nothing is done with the snapshot
AfterReject(b, snapshot) == b

\* clear() that leaves the entries
ClearedBatch_Keep(b) == b

\* clear(): this.batch.clear()
ClearedBatch(b) == <<>>

\* history: the edits of a snapshot change status
Mark(es, snapshot, from, status) ==
    [i \in 1..Len(es) |->
        IF \E k \in from..Len(snapshot) : snapshot[k].val.version = i
        THEN [es[i] EXCEPT !.status = status]
        ELSE es[i]]

\* history: one invocation of a flush callback
Invocation(snapshot, by) ==
    [updates |-> snapshot, at |-> now, by |-> by, sofar |-> Len(added)]

\* history: what a call on the BatchUpdateManager found
Found == [batch |-> batch, timers |-> timers, flushed |-> Len(flushed)]

BatchInit ==
    /\ batch = <<>>
    /\ batchTimeout = NoTimer
    /\ timers = {}
    /\ added = <<>>
    /\ flushed = <<>>

\* addUpdate(cellId, value, onFlush), onFlush closing over u.  The caller
\* stamps the value with a fresh version, as updateCell does.
AddUpdate(c, u, val) ==
    /\ Len(added) < MaxAdds
    /\ LET cellValue == [value |-> val, timestamp |-> now, userId |-> u,
                         version |-> Len(added) + 1]
       IN batch' = AddToBatch(batch, c, cellValue)
    /\ timers' = ClearTimeout(timers, batchTimeout) \cup {TimerOf(NewTimeout(now, u))}
    /\ batchTimeout' = NewTimeout(now, u)
    /\ added' = Append(added, [cell |-> c, at |-> now, cleared |-> FALSE])
    /\ lastCall' = [op |-> "addUpdate", cell |-> c, user |-> u, ret |-> TRUE,
                    at |-> now, before |-> Found]
    /\ UNCHANGED <<qvars, now, lvars, version, pendingUpdates, mounted, flushed, flights, edits, rvars>>

\* forceFlush(onFlush): clearTimeout, then flush(onFlush), whose callback
\* starts awaiting
ForceFlush(u) ==
    /\ timers' = ClearTimeout(timers, batchTimeout)
    /\ IF FlushSkips(batch)
       THEN UNCHANGED <<batch, batchTimeout, flushed, flights, edits>>
       ELSE /\ batch' = FlushRemainder(batch)
            /\ batchTimeout' = NoTimer
            /\ flushed' = Append(flushed, Invocation(FlushSnapshot(batch), "forceFlush"))
            /\ flights' = flights \cup
                  {[updates |-> FlushSnapshot(batch), idx |-> 1, userId |-> u, bulk |-> TRUE]}
            /\ edits' = Mark(edits, FlushSnapshot(batch), 1, "flushing")
    /\ lastCall' = [op |-> "forceFlush", cell |-> "none", user |-> u, ret |-> TRUE,
                    at |-> now, before |-> Found]
    /\ UNCHANGED <<qvars, now, lvars, version, pendingUpdates, mounted, added, rvars>>

\* clear(): clearTimeout and this.batch.clear()
BatchClear ==
    /\ timers' = ClearTimeout(timers, batchTimeout)
    /\ batch' = ClearedBatch(batch)
    /\ added' = [k \in 1..Len(added) |->
                    IF \E j \in 1..Len(batch) : batch[j].val.version = k
                    THEN [added[k] EXCEPT !.cleared = TRUE]
                    ELSE added[k]]
    /\ lastCall' = [op |-> "clear", cell |-> "none", user |-> "none", ret |-> TRUE,
                    at |-> now, before |-> Found]
    /\ UNCHANGED <<qvars, now, lvars, version, pendingUpdates, mounted, batchTimeout, flushed,
                   flights, edits, rvars>>

\* the promise of a flush callback resolves: flush() returns
CallbackResolves(f) ==
    /\ f \in flights
    /\ flights' = flights \ {f}
    /\ lastCall' = [op |-> "callbackResolved", cell |-> "none", user |-> f.userId,
                    ret |-> TRUE, at |-> now, before |-> Found]
    /\ UNCHANGED <<qvars, now, lvars, version, pendingUpdates, mounted, batch, batchTimeout,
                   bvars, edits, rvars>>

\* the promise of a flush callback rejects: `await onFlush(updates)` throws and
\* flush() rejects; no caller of flush() handles it
CallbackRejects(f) ==
    /\ f \in flights
    /\ flights' = flights \ {f}
    /\ batch' = AfterReject(batch, f.updates)
    /\ lastCall' = [op |-> "callbackRejected", cell |-> "none", user |-> f.userId,
                    ret |-> FALSE, at |-> now, before |-> Found]
    /\ UNCHANGED <<qvars, now, lvars, version, pendingUpdates, mounted, batchTimeout,
                   bvars, edits, rvars>>

(***************************************************************************)
(* The facade useRaceConditionHandler                                      *)
(***************************************************************************)

FacadeInit ==
    /\ version = 0
    /\ pendingUpdates = <<>>
    /\ BatchInit
    /\ flights = {}
    /\ edits = <<>>
    /\ mounted = TRUE

\* updateCell(cellId, value, onUpdate) called from a render whose userId is u.
\* lockCell refuses: return false.  Otherwise getNextVersion, addUpdate (the
\* entry is set, the armed timer is cleared and a new one is set whose callback
\* closes over this call's userId and onUpdate), return true.  Neither call in
\* the try block throws, so the catch block never runs.
UpdateCellCall(c, u, val) ==
    /\ mounted
    /\ lockedCells' = LockCellState(lockedCells, c, u, now)
    /\ lastCall' = [op |-> "updateCell", cell |-> c, user |-> u,
                    ret |-> LockCellReturn(lockedCells, c, u, now),
                    at |-> now, before |-> EntryOf(lockedCells, c)]
    /\ IF LockCellReturn(lockedCells, c, u, now)
       THEN LET v == NextVersion(version)
                cellValue == [value |-> val, timestamp |-> now, userId |-> u, version |-> v]
            IN /\ acquired' = MapSet(acquired, <<c, u>>, now)
               /\ version' = v
               /\ pendingUpdates' = MapSet(pendingUpdates, c, v)
               /\ batch' = AddToBatch(batch, c, cellValue)
               /\ timers' = ClearTimeout(timers, batchTimeout)
                               \cup {TimerOf(NewTimeout(now, u))}
               /\ batchTimeout' = NewTimeout(now, u)
               /\ added' = Append(added, [cell |-> c, at |-> now, cleared |-> FALSE])
               /\ edits' = Append(
                     [i \in 1..Len(edits) |->
                        IF edits[i].cell = c /\ edits[i].status = "batched"
                        THEN [edits[i] EXCEPT !.status = "superseded"]
                        ELSE edits[i]],
                     [cell |-> c, userId |-> u, status |-> "batched", promise |-> "true"])
               /\ returned' = Append(returned, Returned(c, v))
               /\ UNCHANGED <<flights, flushed>>
       ELSE /\ version' = VersionOnRefusal(version)
            /\ UNCHANGED <<acquired, pendingUpdates, batch, batchTimeout, flights, edits,
                           bvars, returned>>
    /\ UNCHANGED <<qvars, now, mounted, localValue, remoteValue, resolution, mvars, svars,
                   clientLocks, gvars>>

\* updateCell, called at most MaxEdits times
UpdateCell(c, u, val) ==
    /\ version < MaxEdits
    /\ UpdateCellCall(c, u, val)

\* The debounce timer fires: flush(onFlush).  The batch is copied and cleared,
\* batchTimeout is reset, and onFlush(updates) runs up to its first await: the
\* call onUpdate(id, cellVal) for the first entry.
TimerFire ==
    \E tm \in timers :
        /\ now >= tm.deadline
        /\ timers' = timers \ {tm}
        /\ IF FlushSkips(batch)
           THEN UNCHANGED <<batch, batchTimeout, flushed, flights, edits>>
           ELSE /\ batch' = FlushRemainder(batch)
                /\ batchTimeout' = NoTimer
                /\ flushed' = Append(flushed, Invocation(FlushSnapshot(batch), "timer"))
                /\ flights' = flights \cup
                      {[updates |-> FlushSnapshot(batch), idx |-> 1,
                        userId |-> tm.userId, bulk |-> FALSE]}
                /\ edits' = Mark(edits, FlushSnapshot(batch), 1, "flushing")
        /\ lastCall' = [op |-> "flush", cell |-> "none", user |-> tm.userId,
                        ret |-> TRUE, at |-> now, before |-> Found]
        /\ UNCHANGED <<qvars, now, lockedCells, acquired, version, pendingUpdates,
                       mounted, added, rvars>>

\* onUpdate(id, cellVal) resolves: the flush callback goes on with
\* confirmUpdate(id) and unlockCell(id, userId), then calls onUpdate for the
\* next entry of its snapshot, or returns.
PersistResolve(f) ==
    /\ f \in flights
    /\ ~f.bulk
    /\ LET e == f.updates[f.idx]
       IN /\ pendingUpdates' = ConfirmUpdateState(pendingUpdates, e.id)
          /\ lockedCells' = UnlockCellState(lockedCells, e.id, f.userId)
          /\ acquired' = MapDelete(acquired, <<e.id, f.userId>>)
          /\ edits' = [edits EXCEPT ![e.val.version].status = "persisted"]
          /\ flights' = IF f.idx < Len(f.updates)
                        THEN (flights \ {f}) \cup {[f EXCEPT !.idx = f.idx + 1]}
                        ELSE flights \ {f}
          /\ lastCall' = [op |-> "persistResolved", cell |-> e.id, user |-> f.userId,
                          ret |-> TRUE, at |-> now, before |-> EntryOf(lockedCells, e.id)]
    /\ UNCHANGED <<qvars, now, version, batch, batchTimeout, mounted, bvars, rvars>>

\* onUpdate(id, cellVal) rejects: the await in the flush callback throws, the
\* callback's promise rejects, and so does the promise of flush(), which its
\* caller (the timer callback) neither awaits nor catches.
PersistReject(f) ==
    /\ f \in flights
    /\ ~f.bulk
    /\ LET e == f.updates[f.idx]
       IN /\ edits' = [Mark(edits, f.updates, f.idx + 1, "abandoned")
                          EXCEPT ![e.val.version].status = "failed"]
          /\ flights' = flights \ {f}
          /\ batch' = AfterReject(batch, f.updates)
          /\ lastCall' = [op |-> "persistRejected", cell |-> e.id, user |-> f.userId,
                          ret |-> FALSE, at |-> now, before |-> EntryOf(lockedCells, e.id)]
    /\ UNCHANGED <<qvars, now, lockedCells, acquired, version, pendingUpdates,
                   batchTimeout, mounted, bvars, rvars>>

\* The callback useSpreadsheet hands to flushBatchUpdates: one update() of
\* the data path with every entry of the snapshot, then one of the metadata
\* path.  It calls neither confirmUpdate nor unlockCell.
BulkResolve(f) ==
    /\ f \in flights
    /\ f.bulk
    /\ flights' = flights \ {f}
    /\ edits' = Mark(edits, f.updates, 1, "persisted")
    /\ lastCall' = [op |-> "bulkResolved", cell |-> "none", user |-> f.userId,
                    ret |-> TRUE, at |-> now, before |-> Found]
    /\ UNCHANGED <<qvars, now, lvars, version, pendingUpdates, batch, batchTimeout,
                   mounted, bvars, rvars>>

\* update() of the data path rejects: the callback's promise rejects and so
\* does that of flush(), which forceFlush does not await.
BulkReject(f) ==
    /\ f \in flights
    /\ f.bulk
    /\ flights' = flights \ {f}
    /\ batch' = AfterReject(batch, f.updates)
    /\ edits' = Mark(edits, f.updates, 1, "failed")
    /\ lastCall' = [op |-> "bulkRejected", cell |-> "none", user |-> f.userId,
                    ret |-> FALSE, at |-> now, before |-> Found]
    /\ UNCHANGED <<qvars, now, lvars, version, pendingUpdates, batchTimeout,
                   mounted, bvars, rvars>>

\* useSpreadsheet renders again.  The effect that flushes has dataRefPath and
\* metadataRefPath among its dependencies, which are new objects in every
\* render, so its cleanup runs: flushBatchUpdates(bulk callback), that is
\* forceFlush.
Rerender ==
    /\ mounted
    /\ ForceFlush("none")

\* The component unmounts: the cleanups of its effects run in the order the
\* effects were declared.  useSpreadsheet calls useRaceConditionHandler before
\* it declares its own effects, so the hook's cleanup (operationQueue.clear(),
\* batchUpdateManager.clear()) runs first and the cleanup that calls
\* flushBatchUpdates runs after it.
Unmount ==
    /\ mounted
    /\ mounted' = FALSE
    /\ queue' = <<>>
    /\ LET cleared == ClearedBatch(batch)
           left == ClearTimeout(ClearTimeout(timers, batchTimeout), batchTimeout)
       IN /\ timers' = left
          /\ added' = [k \in 1..Len(added) |->
                          IF /\ \E j \in 1..Len(batch) : batch[j].val.version = k
                             /\ ~\E j \in 1..Len(cleared) : cleared[j].val.version = k
                          THEN [added[k] EXCEPT !.cleared = TRUE]
                          ELSE added[k]]
          /\ IF FlushSkips(cleared)
             THEN /\ batch' = cleared
                  /\ edits' = Mark(edits, batch, 1, "discarded")
                  /\ UNCHANGED <<batchTimeout, flushed, flights>>
             ELSE /\ batch' = FlushRemainder(cleared)
                  /\ batchTimeout' = NoTimer
                  /\ flushed' = Append(flushed, Invocation(FlushSnapshot(cleared), "forceFlush"))
                  /\ flights' = flights \cup
                        {[updates |-> FlushSnapshot(cleared), idx |-> 1,
                          userId |-> "none", bulk |-> TRUE]}
                  /\ edits' = Mark(edits, FlushSnapshot(cleared), 1, "flushing")
    /\ lastCall' = [op |-> "unmount", cell |-> "none", user |-> "none", ret |-> TRUE,
                    at |-> now, before |-> Found]
    /\ UNCHANGED <<processing, awaiting, opState, wrapped, handle, started, enqueued,
                   waitsFor, now, lvars, version, pendingUpdates, rvars>>

(***************************************************************************)
(* Specifications                                                          *)
(***************************************************************************)

\* before resolveCellConflict is called
NoCellValue == [value |-> "none", timestamp |-> 0, userId |-> "none", version |-> 0]
NoResolution == [resolved |-> FALSE, finalValue |-> NoCellValue, conflicts |-> <<>>]

\* before mergeCellUpdates is called
NoMerge == [done |-> FALSE, threw |-> FALSE, value |-> NoCellValue]

\* no call of resolveCellConflict
ResolveIdle ==
    /\ localValue = NoCellValue
    /\ remoteValue = NoCellValue
    /\ resolution = NoResolution

\* no call of mergeCellUpdates
MergeIdle ==
    /\ updates = <<>>
    /\ merged = NoMerge

\* no writer has written
SitesIdle ==
    /\ written = [u \in Users |-> NoCellValue]
    /\ shown = [u \in Users |-> NoCellValue]
    /\ applied = {}

\* the CellLockManager of every client is empty
ClientsInit == clientLocks = [u \in Users |-> <<>>]

\* no structural operation has read the grid, no edit is lost
NoSnapshot == [phase |-> "none", read |-> {}]
GridIdle ==
    /\ currentData = [o \in Ops |-> NoSnapshot]
    /\ lost = {}

Init ==
    /\ QueueInit
    /\ now = 0
    /\ LockInit
    /\ FacadeInit
    /\ ResolveIdle
    /\ MergeIdle
    /\ SitesIdle
    /\ returned = <<>>
    /\ ClientsInit
    /\ GridIdle

\* the OperationQueue alone
QueueNext ==
    \/ Enqueue
    \/ \E o \in Ops, outcome \in {"resolved", "rejected"} : OperationSettles(o, outcome)
    \/ \E o \in Ops : ProcessResume(o)
    \/ QueueClear

SpecQueue == Init /\ [][QueueNext]_vars

\* the CellLockManager alone, under a clock
LockNext ==
    \/ \E c \in Cells, u \in Users : LockCell(c, u)
    \/ \E c \in Cells, u \in Users : UnlockCell(c, u)
    \/ ClearStaleLocks
    \/ Tick

SpecLock == Init /\ [][LockNext]_vars

\* the callbacks handed to a BatchUpdateManager used alone, each named by the
\* user it closes over
Callbacks == {"userA"}

\* the VersionManager alone
VersionNext ==
    \/ \E c \in Cells : GetNextVersion(c)
    \/ \E c \in Cells : ConfirmUpdate(c)
    \/ \E c \in Cells : RollbackUpdate(c)

SpecVersion == Init /\ [][VersionNext]_vars

\* the BatchUpdateManager alone, under a clock, with a callback that awaits.
\* It is observed for less than LOCK_TTL: the instants of the clock around the
\* TTL serve the locks, which this class does not touch.
BatchNext ==
    \/ \E c \in Cells, u \in Callbacks, val \in Values : AddUpdate(c, u, val)
    \/ TimerFire
    \/ \E u \in Callbacks : ForceFlush(u)
    \/ BatchClear
    \/ \E f \in flights : CallbackResolves(f)
    \/ \E f \in flights : CallbackRejects(f)
    \/ Tick /\ now' < LOCK_TTL

SpecBatch == Init /\ [][BatchNext]_vars

\* the facade: updateCell, the debounce timer, the persistence sink and the
\* interval that sweeps stale locks
FacadeNext ==
    \/ \E c \in Cells, u \in Users, val \in Values : UpdateCell(c, u, val)
    \/ TimerFire
    \/ \E f \in flights : PersistResolve(f)
    \/ \E f \in flights : PersistReject(f)
    \/ \E f \in flights : BulkResolve(f)
    \/ \E f \in flights : BulkReject(f)
    \/ Rerender
    \/ Unmount
    \/ mounted /\ ClearStaleLocks
    \/ Tick

SpecFacade == Init /\ [][FacadeNext]_vars

\* the facade while the component stays mounted and renders once: edits, the
\* debounce timer and the persistence sink
EditingNext ==
    \/ \E c \in Cells, u \in Users, val \in Values : UpdateCell(c, u, val)
    \/ TimerFire
    \/ \E f \in flights : PersistResolve(f)
    \/ \E f \in flights : PersistReject(f)
    \/ Tick

SpecEditing == Init /\ [][EditingNext]_vars

Next == QueueNext \/ LockNext \/ VersionNext \/ BatchNext \/ FacadeNext

Spec == Init /\ [][Next]_vars

(***************************************************************************)
(* Properties of the OperationQueue (SpecQueue)                            *)
(***************************************************************************)

Running == {o \in Ops : opState[o] = "running"}
Settled == {o \in Ops : opState[o] \in {"resolved", "rejected"}}

\* C1: in every reachable state at most one enqueued operation is in flight
\* (started and not yet settled), whenever the enqueue calls are made.
C1_AtMostOneInFlight == Cardinality(Running) <= 1

\* an operation is in flight while two more, enqueued meanwhile, wait
C1_Witness == Cardinality(Running) = 1 /\ Len(queue) >= 2

\* C2: operations start in the order they were enqueued (they are numbered in
\* that order): the started operations are in increasing order, no operation
\* still queued was enqueued before a started one, and every started operation
\* but the last has finished (resolved or rejected).
C2_StartInEnqueueOrder ==
    /\ \A i, j \in 1..Len(started) : i < j => started[i] < started[j]
    /\ \A i \in 1..Len(started), o \in Ops : opState[o] = "queued" => started[i] < o
    /\ \A i, j \in 1..Len(queue) : i < j => queue[i] < queue[j]
    /\ \A i \in 1..Len(started) : i < Len(started) => started[i] \in Settled

\* three operations were started, one after a rejection, while another waits
C2_Witness ==
    /\ Len(started) >= 3
    /\ Len(queue) >= 1
    /\ \E i \in 1..Len(started) : opState[started[i]] = "rejected"

\* C3: a rejected operation rejects its own handle and no other (each handle
\* settles with the outcome of its own operation), and the queue is not
\* jammed: while operations wait, or the flag is set, a process() loop is
\* alive to start the next one and to reset the flag.
C3_FailureIsolated ==
    /\ \A o \in Ops : opState[o] = "rejected" <=> handle[o] = "rejected"
    /\ \A o \in Ops : opState[o] = "resolved" <=> handle[o] = "resolved"
    /\ Len(queue) > 0 => processing
    /\ processing => awaiting # {}
    /\ \A o \in awaiting : wrapped[o] \in {"pending", "fulfilled"}

\* an operation was rejected, the one enqueued behind it was started and
\* resolved, and the queue drained and reset its flag
C3_Witness ==
    \E o \in Ops :
        /\ o + 1 \in Ops
        /\ opState[o] = "rejected" /\ handle[o] = "rejected"
        /\ \E i \in 1..Len(started) : i > 1 /\ started[i] = o + 1 /\ started[i - 1] = o
        /\ opState[o + 1] = "resolved" /\ handle[o + 1] = "resolved"
        /\ ~processing

(***************************************************************************)
(* Properties of the CellLockManager (SpecLock)                            *)
(***************************************************************************)

\* isLocked(cellId)
IsLocked(c) == c \in DOMAIN lockedCells

\* the last call found the cell locked by a user other than its caller
FoundOtherHolder ==
    /\ lastCall.cell \in DOMAIN lastCall.before
    /\ lastCall.before[lastCall.cell].userId # lastCall.user

\* the age, at the last call, of the entry that call found
AgeFound == lastCall.at - lastCall.before[lastCall.cell].timestamp

\* C4: lockCell(c, B) on a cell whose lock is held by another holder A and is
\* still live (now - acquiredAt <= 5000) returns false and leaves the entry as
\* it was (same holder, same acquiredAt).
C4_RefusedLeavesLock ==
    (lastCall.op = "lockCell" /\ FoundOtherHolder /\ AgeFound <= LOCK_TTL)
        => /\ lastCall.ret = FALSE
           /\ EntryOf(lockedCells, lastCall.cell) = lastCall.before

\* B was refused on a lock of A that was some time old
C4_Witness ==
    /\ lastCall.op = "lockCell" /\ FoundOtherHolder
    /\ AgeFound > 0 /\ AgeFound < LOCK_TTL
    /\ lastCall.ret = FALSE

\* user u holds a successful, unreleased, unexpired acquisition of cell c
HoldsLive(c, u) ==
    /\ <<c, u>> \in DOMAIN acquired
    /\ now - acquired[<<c, u>>] <= LOCK_TTL

\* C5: mutual exclusion: two different holders never both hold a successful,
\* unreleased, unexpired acquisition of the same cell, and a live entry of the
\* map is the acquisition of its holder.
C5_MutualExclusion ==
    /\ \A c \in Cells, u1, u2 \in Users : HoldsLive(c, u1) /\ HoldsLive(c, u2) => u1 = u2
    /\ \A c \in Cells :
          (IsLocked(c) /\ ~IsStale(lockedCells[c], now))
              => /\ <<c, lockedCells[c].userId>> \in DOMAIN acquired
                 /\ acquired[<<c, lockedCells[c].userId>>] = lockedCells[c].timestamp

\* B holds a cell live after the acquisition of A, never released, expired
C5_Witness ==
    \E c \in Cells, u1, u2 \in Users :
        /\ u1 # u2
        /\ HoldsLive(c, u1)
        /\ <<c, u2>> \in DOMAIN acquired /\ ~HoldsLive(c, u2)
        /\ IsLocked(c) /\ lockedCells[c].userId = u1

\* C6: a lock is live iff now - acquiredAt <= 5000: lockCell(c, B) on an entry
\* of another holder A older than 5000 ms returns true and makes B the holder
\* (stamped now); at exactly 5000 ms, and before, B is refused and A stays.
C6_Expiry ==
    (lastCall.op = "lockCell" /\ FoundOtherHolder)
        => /\ AgeFound > LOCK_TTL =>
                 /\ lastCall.ret = TRUE
                 /\ IsLocked(lastCall.cell)
                 /\ lockedCells[lastCall.cell] =
                       [userId |-> lastCall.user, timestamp |-> lastCall.at]
           /\ AgeFound <= LOCK_TTL =>
                 /\ lastCall.ret = FALSE
                 /\ IsLocked(lastCall.cell)
                 /\ lockedCells[lastCall.cell].userId =
                       lastCall.before[lastCall.cell].userId

\* B took over a lock of A that was 5001 ms old
C6_Witness ==
    /\ lastCall.op = "lockCell" /\ FoundOtherHolder
    /\ AgeFound = LOCK_TTL + 1
    /\ lastCall.ret = TRUE
    /\ lockedCells[lastCall.cell].userId = lastCall.user

\* B was refused on a lock of A that was exactly 5000 ms old
C6_WitnessAtTTL ==
    /\ lastCall.op = "lockCell" /\ FoundOtherHolder
    /\ AgeFound = LOCK_TTL
    /\ lastCall.ret = FALSE

\* C7: unlockCell(c, B) on a lock held by another holder A changes nothing
\* (isLocked(c) stays true, the holder stays A); unlockCell(c, A) by the holder
\* removes the lock, so that a following lockCell(c, B) returns true for any B.
C7_ReleaseAsymmetry ==
    (lastCall.op = "unlockCell" /\ lastCall.cell \in DOMAIN lastCall.before)
        => IF FoundOtherHolder
           THEN /\ IsLocked(lastCall.cell)
                /\ EntryOf(lockedCells, lastCall.cell) = lastCall.before
           ELSE /\ ~IsLocked(lastCall.cell)
                /\ \A u \in Users : LockCellReturn(lockedCells, lastCall.cell, u, now)

\* B tried to release the live lock of A, which stayed
C7_Witness ==
    /\ lastCall.op = "unlockCell" /\ FoundOtherHolder
    /\ IsLocked(lastCall.cell)
    /\ ~IsStale(lockedCells[lastCall.cell], now)

\* A released its own live lock
C7_WitnessHolder ==
    /\ lastCall.op = "unlockCell"
    /\ lastCall.cell \in DOMAIN lastCall.before /\ ~FoundOtherHolder
    /\ ~IsLocked(lastCall.cell)

(***************************************************************************)
(* Properties of the facade (SpecFacade)                                   *)
(***************************************************************************)

\* the accepted edits that still wait for their persistence call to complete
Unpersisted == {i \in 1..Len(edits) : edits[i].status \in {"batched", "flushing"}}

\* C8: whenever the persistence callback rejects for an accepted edit,
\* afterwards the VersionManager has no pending entry for that cell and the
\* lock of the writer on that cell is released: any holder can acquire it.
C8_RejectLeavesStateConsistent ==
    lastCall.op = "persistRejected"
        => /\ lastCall.cell \notin DOMAIN pendingUpdates
           /\ \A u \in Users : LockCellReturn(lockedCells, lastCall.cell, u, now)

\* C9: whenever the persistence callback rejects for an edit submitted
\* through updateCell, the promise returned by that updateCell rejects: it has
\* not resolved true for an edit whose persistence fails.
C9_RejectReachesCaller ==
    \A i \in 1..Len(edits) : edits[i].status = "failed" => edits[i].promise = "rejected"

\* C10: from acceptance until its persistence call has completed, the lock of
\* the writer on the cell of an accepted edit stays live: held by the writer
\* and not older than 5000 ms.
C10_LockOutlivesPersistence ==
    \A i \in Unpersisted :
        /\ IsLocked(edits[i].cell)
        /\ lockedCells[edits[i].cell].userId = edits[i].userId
        /\ ~IsStale(lockedCells[edits[i].cell], now)

\* C10, the release alone: the lock of an edit not yet persisted is still in
\* the map under its writer (whatever its age)
C10_LockNotReleased ==
    \A i \in Unpersisted :
        /\ IsLocked(edits[i].cell)
        /\ lockedCells[edits[i].cell].userId = edits[i].userId

(***************************************************************************)
(* Properties of the BatchUpdateManager (checked under SpecBatch)          *)
(***************************************************************************)

\* the snapshot holds the value of the k-th addUpdate
Holds(snapshot, k) == \E j \in 1..Len(snapshot) : snapshot[j].val.version = k

\* the callback invocations that were handed the value of the k-th addUpdate
DeliveredIn(k) == {i \in 1..Len(flushed) : Holds(flushed[i].updates, k)}

\* a flush callback was invoked after the k1-th addUpdate and before the k2-th
FlushBetween(k1, k2) == \E i \in 1..Len(flushed) : flushed[i].sofar \in k1..(k2 - 1)

\* the k-th addUpdate is the latest one for its cell among the first n
LatestFor(k, n) ==
    /\ k <= n
    /\ \A m \in (k + 1)..n : added[m].cell # added[k].cell

\* C11: when addUpdate(c, v1, cb) is followed by addUpdate(c, v2, cb) with no
\* flush in between, v1 is never handed to a callback, v2 is handed to at most
\* one invocation, and a map handed to a callback has one entry per cell, which
\* is the latest value given for that cell before the invocation.
C11_Coalescing ==
    /\ \A k1, k2 \in 1..Len(added) :
          (k1 < k2 /\ added[k1].cell = added[k2].cell /\ ~FlushBetween(k1, k2))
             => /\ DeliveredIn(k1) = {}
                /\ Cardinality(DeliveredIn(k2)) <= 1
    /\ \A i \in 1..Len(flushed) :
          LET m == flushed[i].updates
          IN /\ \A j1, j2 \in 1..Len(m) : m[j1].id = m[j2].id => j1 = j2
             /\ \A j \in 1..Len(m) :
                   /\ m[j].val.version \in 1..Len(added)
                   /\ added[m[j].val.version].cell = m[j].id
                   /\ LatestFor(m[j].val.version, flushed[i].sofar)

\* two addUpdate calls for one cell inside the window, and the timer has
\* delivered the second value
C11_Witness ==
    /\ Len(added) = 2
    /\ added[1].cell = added[2].cell
    /\ added[2].at > added[1].at
    /\ Len(flushed) = 1
    /\ flushed[1].by = "timer"
    /\ flushed[1].sofar = 2
    /\ Holds(flushed[1].updates, 2)

\* the addUpdate calls whose values were pending when the i-th callback
\* invocation was made: those after the previous invocation, not discarded
PendingAt(i) ==
    {k \in 1..flushed[i].sofar :
        /\ \A j \in 1..(i - 1) : flushed[j].sofar < k
        /\ ~added[k].cleared}

\* the invocations made by the debounce timer
TimerFlushes == {i \in 1..Len(flushed) : flushed[i].by = "timer"}

\* C12: in a burst of addUpdate calls less than 100 ms apart the timer makes
\* no flush between two calls; the timer flushes 100 ms after the last call,
\* once, with the latest value of every cell touched; and while values are
\* pending exactly that one timer is set.
C12_Debounce ==
    /\ \A k \in 1..(Len(added) - 1) :
          added[k + 1].at - added[k].at < BATCH_DELAY
             => ~\E i \in TimerFlushes : flushed[i].sofar = k
    /\ \A i \in TimerFlushes :
          /\ flushed[i].sofar >= 1
          /\ flushed[i].at = added[flushed[i].sofar].at + BATCH_DELAY
          /\ \A j \in TimerFlushes : flushed[j].sofar = flushed[i].sofar => j = i
          /\ \A k \in PendingAt(i) :
                LatestFor(k, flushed[i].sofar) => Holds(flushed[i].updates, k)
    /\ Len(batch) > 0
          => /\ timers = {[deadline |-> added[Len(added)].at + BATCH_DELAY,
                           userId |-> batchTimeout.userId]}
             /\ now <= added[Len(added)].at + BATCH_DELAY

\* a burst of two calls for different cells, 1 ms apart, then the one flush
\* with both values, 100 ms after the second call
C12_Witness ==
    /\ Len(added) = 2
    /\ added[1].cell # added[2].cell
    /\ added[2].at - added[1].at \in 1..(BATCH_DELAY - 1)
    /\ Len(flushed) = 1
    /\ flushed[1].by = "timer"
    /\ Len(flushed[1].updates) = 2
    /\ flushed[1].at = added[2].at + BATCH_DELAY
    /\ timers = {}

\* the k-th value was replaced in the pending map by a later one for its cell
Superseded(k) ==
    \E m \in (k + 1)..Len(added) :
        added[m].cell = added[k].cell /\ ~FlushBetween(k, m)

\* C13: a flush leaves the pending map empty when its callback is invoked with
\* what the map held; the map handed to a callback still awaiting is the one
\* recorded at its invocation and holds no value added since, the pending map
\* holds only values added since the last invocation, and every value added is
\* pending, handed over, replaced by a later one for its cell, or discarded by
\* clear().
C13_SwapBeforeFlush ==
    /\ (lastCall.op \in {"flush", "forceFlush"} /\ Len(flushed) > lastCall.before.flushed)
          => /\ batch = <<>>
             /\ flushed[Len(flushed)].updates = lastCall.before.batch
    /\ \A f \in flights :
          \E i \in 1..Len(flushed) :
              /\ flushed[i].updates = f.updates
              /\ \A j \in 1..Len(f.updates) : f.updates[j].val.version <= flushed[i].sofar
    /\ \A j \in 1..Len(batch), i \in 1..Len(flushed) :
          batch[j].val.version > flushed[i].sofar
    /\ \A k \in 1..Len(added) :
          \/ Holds(batch, k)
          \/ DeliveredIn(k) # {}
          \/ Superseded(k)
          \/ added[k].cleared

\* addUpdate for a cell has just been called while the callback holding the
\* previous value of that cell is still awaiting
C13_Witness ==
    /\ lastCall.op = "addUpdate"
    /\ Len(added) = 2
    /\ added[1].cell = added[2].cell
    /\ \E f \in flights : Holds(f.updates, 1) /\ ~Holds(f.updates, 2)
    /\ Holds(batch, 2)
    /\ Len(batch) = 1

\* C14: after forceFlush no timer is set; if values were pending the callback
\* has been invoked once, at once, with all of them and the pending map is
\* empty; if none were pending no callback has been invoked; and no value
\* handed over by a forceFlush is in the map of any other invocation.
C14_ForceFlush ==
    /\ lastCall.op = "forceFlush"
          => /\ timers = {}
             /\ IF lastCall.before.batch # <<>>
                THEN /\ Len(flushed) = lastCall.before.flushed + 1
                     /\ flushed[Len(flushed)].updates = lastCall.before.batch
                     /\ flushed[Len(flushed)].by = "forceFlush"
                     /\ flushed[Len(flushed)].at = lastCall.at
                     /\ batch = <<>>
                ELSE /\ Len(flushed) = lastCall.before.flushed
                     /\ batch = <<>>
    /\ \A i, j \in 1..Len(flushed) :
          (flushed[i].by = "forceFlush" /\ j # i)
             => \A k \in 1..Len(added) :
                   ~(Holds(flushed[i].updates, k) /\ Holds(flushed[j].updates, k))

\* forceFlush found pending values and a timer set, and time has passed beyond
\* the deadline of that timer since
C14_Witness ==
    /\ \E i \in 1..Len(flushed) :
          /\ flushed[i].by = "forceFlush"
          /\ now > added[flushed[i].sofar].at + BATCH_DELAY
          /\ flushed[i].at < added[flushed[i].sofar].at + BATCH_DELAY
    /\ Len(flushed) = 1

\* forceFlush has just been called with nothing pending
C14_WitnessEmpty ==
    /\ lastCall.op = "forceFlush"
    /\ lastCall.before.batch = <<>>
    /\ Len(added) > 0

(***************************************************************************)
(* Properties of the facade at teardown (checked under SpecFacade)         *)
(***************************************************************************)

\* C15: when the component unmounts with edits pending in the open batch,
\* they are handed to the flush callback of the teardown, and none of them is
\* discarded by clear().
C15_TeardownFlushesPending ==
    (lastCall.op = "unmount" /\ lastCall.before.batch # <<>>)
        => /\ Len(flushed) = lastCall.before.flushed + 1
           /\ flushed[Len(flushed)].updates = lastCall.before.batch
           /\ \A k \in 1..Len(added) : ~added[k].cleared

\* C15, the outcome: an edit accepted by updateCell is never discarded without
\* a call of the persistence sink
C15_NoEditDiscarded ==
    \A i \in 1..Len(edits) : edits[i].status # "discarded"

(***************************************************************************)
(* Properties of the BatchUpdateManager, continued (SpecBatch)             *)
(***************************************************************************)

\* C16: after clear() no timer is set, the pending map is empty and no
\* callback has been invoked by it; and a value that was pending at a clear()
\* is in the map of no callback invocation, ever.
C16_ClearDiscards ==
    /\ lastCall.op = "clear"
          => /\ timers = {}
             /\ batch = <<>>
             /\ Len(flushed) = lastCall.before.flushed
             /\ \A j \in 1..Len(lastCall.before.batch) :
                   added[lastCall.before.batch[j].val.version].cleared
    /\ \A k \in 1..Len(added) :
          added[k].cleared => DeliveredIn(k) = {} /\ ~Holds(batch, k)

\* clear() found a value pending and its timer set; a later value has been
\* flushed by its own timer and the discarded one was not in the map
C16_Witness ==
    /\ Len(added) = 2
    /\ added[1].cleared
    /\ added[1].cell # added[2].cell
    /\ Len(flushed) = 1
    /\ flushed[1].by = "timer"
    /\ now > added[1].at + BATCH_DELAY

\* C17: every value given to addUpdate is in the map of at most one callback
\* invocation; and when a callback rejects, the pending map and the timers are
\* as they were and no callback has been invoked.
C17_AtMostOnce ==
    /\ \A k \in 1..Len(added) : Cardinality(DeliveredIn(k)) <= 1
    /\ lastCall.op = "callbackRejected"
          => /\ batch = lastCall.before.batch
             /\ timers = lastCall.before.timers
             /\ Len(flushed) = lastCall.before.flushed

\* the callback that was handed the only value has rejected
C17_Witness ==
    /\ Len(added) = 1
    /\ Len(flushed) = 1
    /\ flights = {}
    /\ lastCall.op = "callbackRejected"
    /\ batch = <<>>
    /\ timers = {}

(***************************************************************************)
(* resolveCellConflict                                                     *)
(***************************************************************************)

\* timestamps of the cell values compared are 0..MaxStamp
MaxStamp == 1
\* versions of the cell values compared are 1..MaxVer
MaxVer == 2

Contents == {"x", "y"}

CellValues ==
    [value : Contents, timestamp : 0..MaxStamp, userId : Users, version : 1..MaxVer]

\* a tie on timestamps resolved for remoteValue whatever the versions
TieWinner_Remote(l, r) == r

\* const winner = localValue.version > remoteValue.version ? localValue : remoteValue
TieWinner(l, r) == IF l.version > r.version THEN l ELSE r

\* different timestamps resolved for localValue
StampWinner_Local(l, r) == l

\* different timestamps resolved by version
StampWinner_ByVersion(l, r) == IF r.version > l.version THEN r ELSE l

\* const winner = remoteValue.timestamp > localValue.timestamp ? remoteValue : localValue
StampWinner(l, r) == IF r.timestamp > l.timestamp THEN r ELSE l

\* a resolution that prefers localValue on a full tie
ResolveCellConflict_TieLocal(l, r, u) ==
    [resolved |-> TRUE,
     finalValue |-> IF l.timestamp = r.timestamp
                    THEN (IF l.version >= r.version THEN l ELSE r)
                    ELSE StampWinner(l, r),
     conflicts |-> <<l, r>>]

\* resolveCellConflict(localValue, remoteValue, _currentUserId)
ResolveCellConflict(l, r, u) ==
    IF l.timestamp = r.timestamp
    THEN [resolved |-> TRUE, finalValue |-> TieWinner(l, r), conflicts |-> <<l, r>>]
    ELSE [resolved |-> TRUE, finalValue |-> StampWinner(l, r), conflicts |-> <<l, r>>]

\* the caller holds two values of a cell
ResolveInit ==
    /\ QueueInit
    /\ now = 0
    /\ LockInit
    /\ FacadeInit
    /\ localValue \in CellValues
    /\ remoteValue \in CellValues
    /\ resolution = NoResolution
    /\ MergeIdle
    /\ SitesIdle
    /\ returned = <<>>
    /\ ClientsInit
    /\ GridIdle

\* the call resolveCellConflict(localValue, remoteValue, u)
Resolve(u) ==
    /\ ~resolution.resolved
    /\ resolution' = ResolveCellConflict(localValue, remoteValue, u)
    /\ UNCHANGED <<qvars, now, lvars, lastCall, fvars, bvars, localValue, remoteValue,
                   mvars, svars, returned, clientLocks, gvars>>

ResolveNext == \E u \in Users : Resolve(u)

SpecResolve == ResolveInit /\ [][ResolveNext]_vars

\* the larger of two values by timestamp / by version
Later(a, b) == IF a.timestamp > b.timestamp THEN a ELSE b
Higher(a, b) == IF a.version > b.version THEN a ELSE b

\* C18: when the two values have different timestamps, finalValue is the one
\* with the larger timestamp, whatever the versions, the userIds and which of
\* the two is localValue.
C18_LaterTimestampWins ==
    (resolution.resolved /\ localValue.timestamp # remoteValue.timestamp)
        => resolution.finalValue = Later(localValue, remoteValue)

\* localValue is later but has the lower version and another userId, and wins
C18_Witness ==
    /\ resolution.resolved
    /\ localValue.timestamp > remoteValue.timestamp
    /\ localValue.version < remoteValue.version
    /\ localValue.userId # remoteValue.userId
    /\ resolution.finalValue = localValue

\* remoteValue is later but has the lower version, and wins
C18_WitnessRemote ==
    /\ resolution.resolved
    /\ remoteValue.timestamp > localValue.timestamp
    /\ remoteValue.version < localValue.version
    /\ resolution.finalValue = remoteValue

\* C19: when the two values have equal timestamps and different versions,
\* finalValue is the one with the larger version, whichever of the two is
\* localValue.
C19_HigherVersionWinsTie ==
    (/\ resolution.resolved
     /\ localValue.timestamp = remoteValue.timestamp
     /\ localValue.version # remoteValue.version)
        => resolution.finalValue = Higher(localValue, remoteValue)

\* equal timestamps, localValue has the higher version and wins
C19_Witness ==
    /\ resolution.resolved
    /\ localValue.timestamp = remoteValue.timestamp
    /\ localValue.version > remoteValue.version
    /\ resolution.finalValue = localValue

\* equal timestamps, remoteValue has the higher version and wins
C19_WitnessRemote ==
    /\ resolution.resolved
    /\ localValue.timestamp = remoteValue.timestamp
    /\ remoteValue.version > localValue.version
    /\ resolution.finalValue = remoteValue

\* the outcome of the call with the two values exchanged
Exchanged == ResolveCellConflict(remoteValue, localValue, "userA").finalValue

\* C20: for every pair of values, those with equal timestamp and equal
\* version but different value or userId included, the call with the two
\* values exchanged has the same finalValue.
C20_Commutative ==
    resolution.resolved => resolution.finalValue = Exchanged

\* C20 as amended: the call with the two values exchanged has the same
\* finalValue when the timestamps differ or the versions differ (or the two
\* values are the same); on a tie of both, finalValue is remoteValue in either
\* order.
C20_CommutativeUnlessTied ==
    resolution.resolved
        => /\ (\/ localValue.timestamp # remoteValue.timestamp
               \/ localValue.version # remoteValue.version
               \/ localValue = remoteValue)
                  => resolution.finalValue = Exchanged
           /\ (/\ localValue.timestamp = remoteValue.timestamp
               /\ localValue.version = remoteValue.version)
                  => /\ resolution.finalValue = remoteValue
                     /\ Exchanged = localValue

\* the two values differ in timestamp and version in opposite directions and
\* the outcome is the same in both orders
C20_Witness ==
    /\ resolution.resolved
    /\ localValue.timestamp < remoteValue.timestamp
    /\ localValue.version > remoteValue.version
    /\ resolution.finalValue = Exchanged

\* a full tie between values of two users: the outcome depends on the order
C20_WitnessTie ==
    /\ resolution.resolved
    /\ localValue.timestamp = remoteValue.timestamp
    /\ localValue.version = remoteValue.version
    /\ localValue.userId # remoteValue.userId
    /\ resolution.finalValue # Exchanged

(***************************************************************************)
(* mergeCellUpdates                                                        *)
(***************************************************************************)

\* the lists merged have at most MaxLen elements
MaxLen == 3

\* the values merged: those of CellValues with one content (two values that
\* tie on timestamp and version still differ in userId)
MergeValues == {v \in CellValues : v.value = "x"}

UpdateLists == UNION {[1..n -> MergeValues] : n \in 0..MaxLen}

\* a comparator that looks at the version first
Compare_VersionFirst(a, b) ==
    IF a.version # b.version THEN b.version - a.version ELSE b.timestamp - a.timestamp

\* the comparator handed to sort: by timestamp, newest first, then by version
Compare(a, b) ==
    IF a.timestamp # b.timestamp THEN b.timestamp - a.timestamp ELSE b.version - a.version

\* x put into the sorted list s behind every element that does not sort after it
SortedInsert(x, s) ==
    LET keep == {i \in 1..Len(s) : Compare(s[i], x) <= 0}
        n == Cardinality(keep)
    IN SubSeq(s, 1, n) \o <<x>> \o SubSeq(s, n + 1, Len(s))

RECURSIVE StableSort(_)
\* [...updates].sort(comparator): Array.prototype.sort is stable, elements the
\* comparator holds equal keep the order they had
StableSort(l) ==
    IF Len(l) = 0 THEN <<>>
    ELSE SortedInsert(l[Len(l)], StableSort(SubSeq(l, 1, Len(l) - 1)))

\* a merge without the check of the length
MergeCellUpdates_NoCheck(l) ==
    [done |-> TRUE, threw |-> FALSE,
     value |-> IF Len(l) = 0 THEN NoCellValue ELSE StableSort(l)[1]]

\* mergeCellUpdates(updates)
MergeCellUpdates(l) ==
    IF Len(l) = 0 THEN [done |-> TRUE, threw |-> TRUE, value |-> NoCellValue]
    ELSE IF Len(l) = 1 THEN [done |-> TRUE, threw |-> FALSE, value |-> l[1]]
    ELSE [done |-> TRUE, threw |-> FALSE, value |-> StableSort(l)[1]]

\* the caller holds a list of updates
MergeInit ==
    /\ QueueInit
    /\ now = 0
    /\ LockInit
    /\ FacadeInit
    /\ ResolveIdle
    /\ updates \in UpdateLists
    /\ merged = NoMerge
    /\ SitesIdle
    /\ returned = <<>>
    /\ ClientsInit
    /\ GridIdle

\* the call mergeCellUpdates(updates)
Merge ==
    /\ ~merged.done
    /\ merged' = MergeCellUpdates(updates)
    /\ UNCHANGED <<qvars, now, lvars, lastCall, fvars, bvars, localValue, remoteValue,
                   resolution, updates, svars, returned, clientLocks, gvars>>

MergeNext == Merge

SpecMerge == MergeInit /\ [][MergeNext]_vars

RECURSIVE WinnerAsLocal(_, _, _)
\* the list s from element i on resolved pairwise, the winner so far passed as
\* localValue and the next element as remoteValue
WinnerAsLocal(acc, s, i) ==
    IF i > Len(s) THEN acc
    ELSE WinnerAsLocal(ResolveCellConflict(acc, s[i], "userA").finalValue, s, i + 1)

RECURSIVE WinnerAsRemote(_, _, _)
\* the same with the next element passed as localValue and the winner so far
\* as remoteValue
WinnerAsRemote(acc, s, i) ==
    IF i > Len(s) THEN acc
    ELSE WinnerAsRemote(ResolveCellConflict(s[i], acc, "userA").finalValue, s, i + 1)

\* the list sorted by (timestamp desc, version desc)
Sorted == StableSort(updates)

\* two different elements of the list tie on timestamp and version
HasFullTie ==
    \E i, j \in 1..Len(updates) :
        /\ updates[i] # updates[j]
        /\ updates[i].timestamp = updates[j].timestamp
        /\ updates[i].version = updates[j].version

C22_EmptyMergeFails ==
    merged.done
        => IF Len(updates) = 0
           THEN merged.threw /\ merged.value = NoCellValue
           ELSE ~merged.threw /\ \E i \in 1..Len(updates) : merged.value = updates[i]

\* the empty list has been merged
C22_Witness ==
    /\ merged.done
    /\ updates = <<>>
    /\ merged.threw

\* a list that is not empty has been merged
C22_WitnessNonEmpty ==
    /\ merged.done
    /\ Len(updates) = 2
    /\ ~merged.threw

(***************************************************************************)
(* Two writers of one cell                                                 *)
(***************************************************************************)

\* the other writer
Other(u) == CHOOSE w \in Users : w # u

\* each writer has written the cell without seeing the write of the other:
\* any two values, each under the userId of its writer
SitesInit ==
    /\ QueueInit
    /\ now = 0
    /\ LockInit
    /\ FacadeInit
    /\ ResolveIdle
    /\ MergeIdle
    /\ written \in {w \in [Users -> CellValues] : \A u \in Users : w[u].userId = u}
    /\ shown = written
    /\ applied = {}
    /\ returned = <<>>
    /\ ClientsInit
    /\ GridIdle

\* the site of writer u receives the write of the other writer and applies
\* resolveCellConflict(own value, other's value, u)
ApplyRemote(u) ==
    /\ u \notin applied
    /\ shown' = [shown EXCEPT ![u] =
                    ResolveCellConflict(written[u], written[Other(u)], u).finalValue]
    /\ applied' = applied \cup {u}
    /\ UNCHANGED <<qvars, now, lvars, lastCall, fvars, bvars, localValue, remoteValue,
                   resolution, mvars, written, returned, clientLocks, gvars>>

SitesNext == \E u \in Users : ApplyRemote(u)

SpecSites == SitesInit /\ [][SitesNext]_vars

\* C23: when both sites have applied resolveCellConflict, own value as local
\* and the other's as remote, they hold the same value for the cell.
C23_SitesConverge ==
    applied = Users => \A u, w \in Users : shown[u] = shown[w]

\* C23 as amended: when the two writes differ in timestamp both sites hold the
\* write with the larger timestamp; when they tie on timestamp and differ in
\* version both hold the one with the higher version; when they tie on both,
\* each site holds the write of the other writer.
C23_SitesConvergeUnlessTied ==
    applied = Users =>
        \A u \in Users :
            LET own == written[u]
                other == written[Other(u)]
            IN IF own.timestamp # other.timestamp
               THEN shown[u] = Later(own, other) /\ shown[u] = shown[Other(u)]
               ELSE IF own.version # other.version
               THEN shown[u] = Higher(own, other) /\ shown[u] = shown[Other(u)]
               ELSE shown[u] = other

\* both sites have merged two writes of different content, the later one
\* having the lower version, and both hold the later one
C23_Witness ==
    /\ applied = Users
    /\ written["userA"].timestamp < written["userB"].timestamp
    /\ written["userA"].version > written["userB"].version
    /\ written["userA"].value # written["userB"].value
    /\ shown["userA"] = written["userB"]
    /\ shown["userB"] = written["userB"]

\* both sites have merged two writes that tie on timestamp and version, and
\* hold different values
C23_WitnessTie ==
    /\ applied = Users
    /\ written["userA"].timestamp = written["userB"].timestamp
    /\ written["userA"].version = written["userB"].version
    /\ shown["userA"] # shown["userB"]

(***************************************************************************)
(* Properties of the VersionManager (checked under SpecVersion)            *)
(***************************************************************************)

\* C24: over any sequence of getNextVersion calls on any cells the first
\* value returned is 1 and each is the one before plus 1, so the values are
\* strictly increasing and no two are equal.
C24_VersionsIncrease ==
    /\ \A i \in 1..Len(returned) : returned[i].v = i
    /\ \A i, j \in 1..Len(returned) : i < j => returned[i].v < returned[j].v
    /\ lastCall.op = "getNextVersion" => lastCall.ret = lastCall.before + 1

\* three calls on a mix of cells
C24_Witness ==
    /\ Len(returned) = 3
    /\ returned[1].cell # returned[2].cell
    /\ returned[3].cell = returned[1].cell
    /\ returned[3].v = 3
    /\ lastCall.op = "getNextVersion"

\* C25: confirmUpdate and rollbackUpdate leave the counter as it is; the
\* counter is never below a value returned; no value is returned twice; and a
\* value returned for a cell after a rollback of that cell is greater than the
\* one rolled back.
C25_RollbackNoReuse ==
    /\ lastCall.op \in {"confirmUpdate", "rollbackUpdate"} => version = lastCall.before
    /\ \A i \in 1..Len(returned) : returned[i].v <= version
    /\ \A i, j \in 1..Len(returned) : returned[i].v = returned[j].v => i = j
    /\ \A i, j \in 1..Len(returned) :
          (i < j /\ returned[i].rolledBack /\ returned[i].cell = returned[j].cell)
             => returned[j].v > returned[i].v

\* getNextVersion(c) has just returned after the value it returned before for
\* c was rolled back
C25_Witness ==
    /\ Len(returned) = 2
    /\ returned[1].rolledBack
    /\ returned[2].cell = returned[1].cell
    /\ lastCall.op = "getNextVersion"
    /\ lastCall.ret > returned[1].v

(***************************************************************************)
(* Properties of the CellLockManager, continued (SpecLock)                 *)
(***************************************************************************)

\* the last call was lockCell by the user who held the live lock of the cell
Reacquired ==
    /\ lastCall.op = "lockCell"
    /\ lastCall.cell \in DOMAIN lastCall.before
    /\ lastCall.before[lastCall.cell].userId = lastCall.user
    /\ ~IsStale(lastCall.before[lastCall.cell], lastCall.at)

\* C26: lockCell(c, A) when A holds the live lock on c returns true and stamps
\* the lock with the time of the call: the lock stays live until 5000 ms after
\* that call, whatever the time of the first acquisition.
C26_Reentrant ==
    Reacquired
        => /\ lastCall.ret
           /\ IsLocked(lastCall.cell)
           /\ lockedCells[lastCall.cell] =
                 [userId |-> lastCall.user, timestamp |-> lastCall.at]
           /\ now - lastCall.at <= LOCK_TTL => ~IsStale(lockedCells[lastCall.cell], now)

\* the holder locked again 1 ms after the first acquisition; more than 5000 ms
\* after the first acquisition the lock is still live
C26_Witness ==
    /\ Reacquired
    /\ lastCall.before[lastCall.cell].timestamp < lastCall.at
    /\ now - lastCall.before[lastCall.cell].timestamp > LOCK_TTL
    /\ now - lastCall.at <= LOCK_TTL
    /\ ~IsStale(lockedCells[lastCall.cell], now)

\* getLockedBy(cellId)
GetLockedBy(c) == IF c \in DOMAIN lockedCells THEN lockedCells[c].userId ELSE "null"

\* getAllLocks()
GetAllLocks == [c \in DOMAIN lockedCells |-> lockedCells[c].userId]

\* the lock last set on the cell is older than the TTL
Expired(c) == c \in DOMAIN lockedCells /\ IsStale(lockedCells[c], now)

\* C27: once the lock of a cell is older than 5000 ms, isLocked(c) returns
\* false, getLockedBy(c) returns null and getAllLocks() does not contain c,
\* whether or not lockCell or clearStaleLocks was called since.
C27_ExpiredLockInvisible ==
    \A c \in Cells :
        Expired(c)
            => /\ ~IsLocked(c)
               /\ GetLockedBy(c) = "null"
               /\ c \notin DOMAIN GetAllLocks

\* C27, one accessor: getLockedBy does not name the holder of an expired lock
C27_ExpiredLockHasNoHolder ==
    \A c \in Cells : Expired(c) => GetLockedBy(c) = "null"

(***************************************************************************)
(* Properties of the facade, continued (SpecFacade)                        *)
(***************************************************************************)

\* updateCell(c, u, val) is refused by lockCell
UpdateCellRefused(c, u, val) ==
    UpdateCell(c, u, val) /\ ~LockCellReturn(lockedCells, c, u, now)

\* C28: an updateCell on a cell held live by another holder returns false and
\* changes nothing: the version counter and the pending versions, the batch,
\* the timers, the callbacks in progress, the edits recorded and the lock map
\* are as before.
C28_RefusalChangesNothing ==
    [][\A c \in Cells, u \in Users, val \in Values :
          UpdateCellRefused(c, u, val)
             => /\ lastCall'.ret = FALSE
                /\ UNCHANGED <<version, pendingUpdates, returned, batch, batchTimeout,
                               timers, added, flushed, flights, edits, lockedCells>>]_vars

\* updateCell has just been refused while the edit of the holder is in the
\* open batch with its timer set
C28_Witness ==
    /\ lastCall.op = "updateCell"
    /\ ~lastCall.ret
    /\ lastCall.cell \in DOMAIN lastCall.before
    /\ lastCall.before[lastCall.cell].userId # lastCall.user
    /\ Len(batch) = 1
    /\ batch[1].id = lastCall.cell
    /\ timers # {}
    /\ version = 1

(***************************************************************************)
(* Properties of the OperationQueue, continued (SpecQueue)                 *)
(***************************************************************************)

Dropped == {o \in Ops : opState[o] = "dropped"}

\* C29: an operation that was queued and not started when clear() was called
\* stays discarded: it is never started and its handle stays pending.  clear()
\* leaves the operation in flight and every handle as they are, and that
\* operation settles its handle as without clear().  After a clear() the queue
\* is not jammed: while operations enqueued since wait, a process() loop is
\* alive to start them.
C29_ClearDiscardsQueued ==
    [][/\ \A o \in Dropped :
             /\ opState'[o] = "dropped"
             /\ handle[o] = "pending" /\ handle'[o] = "pending"
             /\ \A i \in 1..Len(started') : started'[i] # o
             /\ \A i \in 1..Len(queue') : queue'[i] # o
       /\ QueueClear
             => /\ queue' = <<>>
                /\ \A o \in Ops : opState[o] = "queued" => opState'[o] = "dropped"
                /\ \A o \in Ops : opState[o] = "running" => opState'[o] = "running"
                /\ UNCHANGED <<handle, awaiting, processing, started>>
       /\ \A o \in Ops :
             (opState[o] = "running" /\ opState'[o] # "running")
                => opState'[o] \in {"resolved", "rejected"} /\ handle'[o] = opState'[o]
       /\ Dropped # {}
             => /\ Len(queue') > 0 => processing' /\ awaiting' # {}
                /\ \A i \in 1..Len(queue') : opState'[queue'[i]] = "queued"]_vars

\* clear() was called while operation 1 was in flight and operation 2 waited:
\* operation 1 has resolved its handle, operation 2 was never started and its
\* handle is pending, operation 3, enqueued after the clear(), has run and
\* resolved its handle
C29_Witness ==
    /\ opState[1] = "resolved" /\ handle[1] = "resolved"
    /\ opState[2] = "dropped" /\ handle[2] = "pending"
    /\ opState[3] = "resolved" /\ handle[3] = "resolved"
    /\ started = <<1, 3>>
    /\ ~processing

(***************************************************************************)
(* Two clients of one session, each with its own useRaceConditionHandler   *)
(***************************************************************************)

\* updateCell(c, ...) in the client of user u, up to the lock: the hook of that
\* client holds its own CellLockManager (useRef(new CellLockManager())), and
\* nothing copies locks from one client to another
ClientUpdateCell(u, c) ==
    /\ clientLocks' = [clientLocks EXCEPT ![u] = LockCellState(clientLocks[u], c, u, now)]
    /\ lastCall' = [op |-> "clientUpdateCell", cell |-> c, user |-> u,
                    ret |-> LockCellReturn(clientLocks[u], c, u, now),
                    at |-> now, before |-> EntryOf(clientLocks[u], c)]
    /\ UNCHANGED <<qvars, now, lvars, fvars, bvars, localValue, remoteValue, resolution,
                   mvars, svars, returned, gvars>>

\* the flush callback of the client of user u has persisted the cell:
\* unlockCell(c, u) on the CellLockManager of that client
ClientPersisted(u, c) ==
    /\ c \in DOMAIN clientLocks[u]
    /\ clientLocks' = [clientLocks EXCEPT ![u] = UnlockCellState(clientLocks[u], c, u)]
    /\ lastCall' = [op |-> "clientPersisted", cell |-> c, user |-> u, ret |-> TRUE,
                    at |-> now, before |-> EntryOf(clientLocks[u], c)]
    /\ UNCHANGED <<qvars, now, lvars, fvars, bvars, localValue, remoteValue, resolution,
                   mvars, svars, returned, gvars>>

\* the 2000 ms interval of the client of user u: clearStaleLocks()
ClientSweep(u) ==
    /\ clientLocks' = [clientLocks EXCEPT ![u] = ClearStaleLocksState(clientLocks[u], now)]
    /\ lastCall' = [op |-> "clientSweep", cell |-> "none", user |-> u, ret |-> TRUE,
                    at |-> now, before |-> <<>>]
    /\ UNCHANGED <<qvars, now, lvars, fvars, bvars, localValue, remoteValue, resolution,
                   mvars, svars, returned, gvars>>

ClientsNext ==
    \/ \E u \in Users, c \in Cells : ClientUpdateCell(u, c)
    \/ \E u \in Users, c \in Cells : ClientPersisted(u, c)
    \/ \E u \in Users : ClientSweep(u)
    \/ Tick

SpecClients == Init /\ [][ClientsNext]_vars

\* the edit of user u to cell c is in flight: accepted in u's client, its lock
\* live
EditInFlight(u, c) ==
    /\ c \in DOMAIN clientLocks[u]
    /\ clientLocks[u][c].userId = u
    /\ ~IsStale(clientLocks[u][c], now)

\* C30: while the accepted edit of one user to a cell is in flight, an
\* updateCell for that cell by another user, in that user's own client, is
\* refused.
C30_OtherClientRefused ==
    \A w \in Users :
        (/\ lastCall.op = "clientUpdateCell"
         /\ w # lastCall.user
         /\ EditInFlight(w, lastCall.cell))
            => ~lastCall.ret

(***************************************************************************)
(* One writer: the order in which the values of a cell reach the store     *)
(***************************************************************************)

\* the writer of the session and the number of its edits
Writer == "userA"
MaxWrites == 3

\* setCellValue: updateCell(cellId, value, onUpdate) by the writer
SetCellValue(c) ==
    /\ version < MaxWrites
    /\ UpdateCellCall(c, Writer, "x")

\* one writer, its debounce timer and a store that acknowledges every write,
\* observed for less than LOCK_TTL
WriterNext ==
    \/ \E c \in Cells : SetCellValue(c)
    \/ TimerFire
    \/ \E f \in flights : PersistResolve(f)
    \/ Tick /\ now' < LOCK_TTL

SpecWriter == Init /\ [][WriterNext]_vars

\* onUpdate has been called for the edit of version v: its write to the store
\* is issued.  The flush callback calls onUpdate for the entries of its
\* snapshot one after the other, each after the one before has resolved.
InvokedFor(v) ==
    \/ edits[v].status \in {"persisted", "failed"}
    \/ \E f \in flights :
          /\ ~f.bulk
          /\ \E k \in 1..f.idx : f.updates[k].val.version = v

\* C31: for one writer and one cell, the persistence callback is invoked for
\* the values of the cell in strictly increasing version order: when it is
\* invoked for a version, it has not been invoked for a later version of the
\* same cell.
C31_PersistInVersionOrder ==
    [][\A v \in 1..Len(edits), w \in 1..Len(edits) :
          (/\ v < w
           /\ edits[v].cell = edits[w].cell
           /\ ~InvokedFor(v)
           /\ InvokedFor(v)')
              => ~InvokedFor(w)]_vars

(***************************************************************************)
(* The facade: bookkeeping across two batches of one cell                  *)
(***************************************************************************)

\* C32: hasPendingUpdates() is true whenever an edit accepted by updateCell
\* still waits for its persistence call to complete, in the open batch or in
\* a batch being flushed.
C32_PendingWhileUnpersisted ==
    Unpersisted # {} => HasPendingUpdates


\* C33: the unlockCell issued when a batch has persisted cell c leaves no
\* later edit of c, waiting in the open batch or being persisted, without the
\* lock of its writer.
C33_UnlockKeepsNewerEditLocked ==
    [][lastCall'.op = "persistResolved"
          => \A i \in 1..Len(edits') :
                (/\ edits'[i].cell = lastCall'.cell
                 /\ edits'[i].status \in {"batched", "flushing"})
                    => /\ lastCall'.cell \in DOMAIN lockedCells'
                       /\ lockedCells'[lastCall'.cell].userId = edits'[i].userId]_vars


\* the entry a flush callback is awaiting the store for
Awaited(f) == f.updates[f.idx]

MaxInserts == 2

\* the edits whose value the store holds: onUpdate has issued their write
\* (update(dataRefPath, ...)) and no set() of the whole grid has removed it.
\* The grid is observed through the edits it contains, whatever row a
\* structural operation has moved them to.
Stored == {v \in 1..Len(edits) : InvokedFor(v)} \ lost

\* a whole-grid write that would keep what the store holds besides newData
AfterSet_Merge(stored, read) == stored \cup read

\* set(dataRefPath, newData), newData built from currentData alone: the grid
\* holds the edits the get() returned, and no other
AfterSet(stored, read) == read

\* insertRow(rowIndex): executeStructuralOperation(...) -> enqueue(operation);
\* a started operation calls get(dataRefPath) and awaits it
InsertRow ==
    /\ enqueued < MaxInserts
    /\ Enqueue

\* the store answers the get() of a running structural operation
GridRead(o) ==
    /\ opState[o] = "running"
    /\ currentData[o].phase = "none"
    /\ currentData' = [currentData EXCEPT ![o] = [phase |-> "read", read |-> Stored]]
    /\ UNCHANGED <<qvars, now, lvars, lastCall, fvars, bvars, localValue, remoteValue,
                   resolution, mvars, svars, returned, clientLocks, lost>>

\* `await get(...)` resumes: newData is computed from currentData and
\* set(dataRefPath, newData) replaces the grid
GridSet(o) ==
    /\ opState[o] = "running"
    /\ currentData[o].phase = "read"
    /\ currentData' = [currentData EXCEPT ![o].phase = "written"]
    /\ lost' = lost \cup (Stored \ AfterSet(Stored, currentData[o].read))
    /\ UNCHANGED <<qvars, now, lvars, lastCall, fvars, bvars, localValue, remoteValue,
                   resolution, mvars, svars, returned, clientLocks>>

\* set() and the update() of the metadata are acknowledged: the operation
\* resolves
StructuralResolves(o) ==
    /\ currentData[o].phase = "written"
    /\ OperationSettles(o, "resolved")

\* the get() fails: the operation rejects without writing
StructuralRejects(o) ==
    /\ currentData[o].phase = "none"
    /\ OperationSettles(o, "rejected")

\* one client: its writer edits cells and inserts rows.  The clock is
\* observed at the deadlines of the debounce timer only.
GridNext ==
    \/ \E c \in Cells : UpdateCell(c, Writer, "x")
    \/ TimerFire
    \/ \E f \in flights : PersistResolve(f)
    \/ InsertRow
    \/ \E o \in Ops : GridRead(o)
    \/ \E o \in Ops : GridSet(o)
    \/ \E o \in Ops : StructuralResolves(o)
    \/ \E o \in Ops : StructuralRejects(o)
    \/ \E o \in Ops : ProcessResume(o)
    \/ Tick /\ now' \in {tm.deadline : tm \in timers}

SpecGrid == Init /\ [][GridNext]_vars

\* operation o is between its read of the grid and its whole-grid write
InWindow(o) == opState[o] = "running" /\ currentData[o].phase = "read"

\* C35: the OperationQueue keeps structural operations apart from each other
\* (at most one is running, so at most one is between its read and its write),
\* and nothing keeps a cell write out of that window: the whole-grid write of a
\* structural operation leaves in the store exactly the edits its read
\* returned, so an edit written in between is lost.
C35_StructuralWriteOverwrites ==
    [][/\ Cardinality({o \in Ops : opState'[o] = "running"}) <= 1
       /\ \A o \in Ops :
             GridSet(o) =>
                /\ Stored' = currentData[o].read
                /\ lost' \ lost = {v \in 1..Len(edits) :
                                      InvokedFor(v) /\ v \notin lost
                                         /\ v \notin currentData[o].read}]_vars

\* an edit reached the store between the read and the write of a structural
\* operation, was acknowledged to its writer as persisted, and is gone
C35_Witness ==
    \E v \in lost, o \in Ops :
        /\ edits[v].status = "persisted"
        /\ currentData[o].phase = "written"
        /\ v \notin currentData[o].read
        /\ v \notin Stored

(***************************************************************************)
(* BatchUpdateManager: the flush timer                                     *)
(***************************************************************************)

\* C36: at most one flush timer is outstanding, the one kept in batchTimeout;
\* and a timer that fires is the one set by the last addUpdate, not cancelled
\* since by a forceFlush or a clear and not fired before.
C36_OneTimerNoCancelledFire ==
    [][/\ Cardinality(timers') <= 1
       /\ \A tm \in timers' : batchTimeout'.armed /\ tm = TimerOf(batchTimeout')
       /\ TimerFire =>
             /\ Len(added) >= 1
             /\ timers = {[deadline |-> added[Len(added)].at + BATCH_DELAY,
                           userId |-> batchTimeout.userId]}
             /\ ~added[Len(added)].cleared
             /\ \A i \in 1..Len(flushed) : flushed[i].sofar < Len(added)]_vars

\* the timer of the first addUpdate was cancelled by the second one: its
\* deadline has passed and the only flush is the one of the second timer
C36_Witness ==
    /\ Len(added) = 2
    /\ added[1].at < added[2].at
    /\ now >= added[1].at + BATCH_DELAY
    /\ lastCall.op = "flush"
    /\ Len(flushed) = 1
    /\ flushed[1].sofar = 2

(***************************************************************************)
(* OperationQueue: progress                                                *)
(***************************************************************************)

\* the queue without clear()
QueueLiveNext ==
    \/ Enqueue
    \/ \E o \in Ops, outcome \in {"resolved", "rejected"} : OperationSettles(o, outcome)
    \/ \E o \in Ops : ProcessResume(o)

\* Every running operation eventually settles (the hypothesis of C37),
\* and a continuation that is ready (process() after `await operation()`) is
\* eventually run by the event loop.
QueueFairness ==
    /\ \A o \in Ops : WF_vars(\E outcome \in {"resolved", "rejected"} : OperationSettles(o, outcome))
    /\ \A o \in Ops : WF_vars(ProcessResume(o))

SpecQueueLive == Init /\ [][QueueLiveNext]_vars /\ QueueFairness

\* operation o has been started
Started(o) == \E k \in 1..Len(started) : started[k] = o

\* C37: without clear(), every enqueued operation is eventually started and
\* its handle eventually settles; and whenever the queue has drained (nothing
\* queued, no activation of process() suspended) the processing flag is false.
C37_EveryOperationCompletes ==
    /\ \A o \in Ops :
          (handle[o] = "pending") ~> (Started(o) /\ handle[o] \in {"resolved", "rejected"})
    /\ []((queue = <<>> /\ awaiting = {}) => ~processing)

\* the queue drained after its first operations: all of them started and
\* settled, one of them by a rejection, and the flag is false again
C37_Witness ==
    /\ enqueued >= 2
    /\ \A o \in 1..enqueued : Started(o) /\ handle[o] \in {"resolved", "rejected"}
    /\ \E o \in 1..enqueued : handle[o] = "rejected"
    /\ queue = <<>>
    /\ awaiting = {}
    /\ ~processing

(***************************************************************************)
(* OperationQueue: an operation that enqueues on its own queue             *)
(***************************************************************************)

\* The running operation o calls enqueue(inner) on the same queue and awaits
\* the handle: executeStructuralOperation called from inside a structural
\* operation.  enqueue pushes the wrapper and calls process(), which returns
\* early when the flag is set.
NestedEnqueue(o) ==
    /\ opState[o] = "running"
    /\ waitsFor[o] = 0
    /\ enqueued < MaxOps
    /\ LET inner == enqueued + 1
           q == Append(queue, inner)
       IN /\ waitsFor' = [waitsFor EXCEPT ![o] = inner]
          /\ enqueued' = inner
          /\ handle' = [handle EXCEPT ![inner] = "pending"]
          /\ IF ProcessReturnsEarly(processing, q)
             THEN /\ queue' = q
                  /\ opState' = [opState EXCEPT ![inner] = "queued"]
                  /\ UNCHANGED <<processing, awaiting, wrapped, started>>
             ELSE LET s == Shift(q)
                  IN /\ processing' = TRUE
                     /\ queue' = s.rest
                     /\ opState' = [opState EXCEPT ![inner] = "queued", ![s.op] = "running"]
                     /\ wrapped' = [wrapped EXCEPT ![s.op] = "pending"]
                     /\ awaiting' = awaiting \cup {s.op}
                     /\ started' = Append(started, s.op)
    /\ UNCHANGED <<now, lockedCells, acquired, lastCall, fvars, bvars, rvars>>

\* the queue (without clear()) with operations that may enqueue on it
NestedNext ==
    \/ Enqueue
    \/ \E o \in Ops : NestedEnqueue(o)
    \/ \E o \in Ops, outcome \in {"resolved", "rejected"} : OperationSettles(o, outcome)
    \/ \E o \in Ops : ProcessResume(o)

SpecNested == Init /\ [][NestedNext]_vars

\* C38: once a running operation has enqueued a second operation on the same
\* queue and awaits its handle, it never completes (it stays running, its own
\* handle pending) and no queued operation is started any more: the operations
\* enqueued from then on stay queued.
C38_NestedEnqueueDeadlocks ==
    [][\A o \in Ops :
          waitsFor[o] # 0 =>
             /\ opState'[o] = "running"
             /\ handle'[o] = "pending"
             /\ handle'[waitsFor[o]] = "pending"
             /\ started' = started
             /\ \A q \in (o + 1)..enqueued' : opState'[q] = "queued"]_vars

\* operation 1 awaits operation 2, which it enqueued; a third operation was
\* enqueued afterwards; none of the two has been started
C38_Witness ==
    /\ waitsFor[1] = 2
    /\ enqueued >= 3
    /\ started = <<1>>
    /\ opState[2] = "queued"
    /\ opState[3] = "queued"
    /\ processing

(***************************************************************************)
(* BatchUpdateManager: delivery                                            *)
(***************************************************************************)

\* the BatchUpdateManager without clear(), under a clock
DeliverNext ==
    \/ \E c \in Cells, u \in Callbacks, val \in Values : AddUpdate(c, u, val)
    \/ TimerFire
    \/ \E u \in Callbacks : ForceFlush(u)
    \/ \E f \in flights : CallbackResolves(f)
    \/ \E f \in flights : CallbackRejects(f)
    \/ Tick /\ now' < LOCK_TTL

\* time passes, and the callback of a timer that is due is run by the event
\* loop
DeliverFairness ==
    /\ WF_vars(Tick /\ now' < LOCK_TTL)
    /\ WF_vars(TimerFire)

SpecDeliver == Init /\ [][DeliverNext]_vars /\ DeliverFairness

\* C39: without clear(), the values in the pending map are eventually handed
\* to a flush callback and the map is empty; the timer hands them over exactly
\* 100 ms after the last addUpdate, all of them, however long the first of
\* them has been pending; and before that instant the timer flushes nothing.
C39_DeliveryOnQuiescence ==
    /\ (Len(batch) > 0) ~> (Len(batch) = 0)
    /\ [][(TimerFire /\ Len(batch) > 0) =>
             /\ now = added[Len(added)].at + BATCH_DELAY
             /\ Len(flushed') = Len(flushed) + 1
             /\ flushed'[Len(flushed')].updates = batch
             /\ flushed'[Len(flushed')].by = "timer"
             /\ batch' = <<>>]_vars
    /\ [](Len(batch) > 0 =>
             /\ now <= added[Len(added)].at + BATCH_DELAY
             /\ \A i \in 1..Len(flushed) :
                   flushed[i].by = "timer" => flushed[i].sofar < Len(added))

\* a second addUpdate came 1 ms after the first: 101 ms after the first call
\* its value is still in the map and no callback has been invoked
C39_WitnessStarved ==
    /\ Len(added) = 2
    /\ added[2].at - added[1].at \in 1..(BATCH_DELAY - 1)
    /\ now - added[1].at > BATCH_DELAY
    /\ Len(batch) = 2
    /\ flushed = <<>>

\* the calls have stopped and the timer has handed over both values
C39_Witness ==
    /\ Len(added) = MaxAdds
    /\ Len(flushed) = 1
    /\ flushed[1].by = "timer"
    /\ flushed[1].at = added[Len(added)].at + BATCH_DELAY
    /\ Len(flushed[1].updates) = 2
    /\ batch = <<>>
    /\ flights = {}
    /\ lastCall.op = "callbackResolved"

====
